---- MODULE Spec2Model ----
(***************************************************************************)
(* A model of the SOP document server: the document-to-passage pipeline    *)
(* (document_processor.py), the embedding index (document_searcher.py)     *)
(* and the tool handlers with their initialization flag (mcp_server.py).   *)
(*                                                                         *)
(* Text is a sequence of one-character strings.  Python indices are        *)
(* 0-based; the operators below take and return Python indices and shift   *)
(* by one only when they touch a TLA+ sequence.                            *)
(***************************************************************************)
EXTENDS Integers, Sequences, FiniteSets, TLC

\* ------------------------------------------------------------------ bounds

\* Longest text handed to the chunker in SpecChunk.
MaxLen == 6
\* Largest chunk_size tried in SpecChunk.
MaxSize == 5
\* Largest overlap tried in SpecChunk (reaches overlap >= chunk_size).
MaxOverlap == 4
\* Loop iterations of chunk_text followed before the run is cut off.
MaxIters == 6

\* ------------------------------------------------- Python string primitives

Whitespace == {" ", "\n"}

SetMax(S) == CHOOSE x \in S : \A y \in S : y <= x

\* A slice bound as Python normalises it: negative counts from the end,
\* and the result is clamped to 0..n.
PyIdx(i, n) ==
  IF i < 0 THEN (IF i + n < 0 THEN 0 ELSE i + n)
  ELSE (IF i > n THEN n ELSE i)

\* s[a:b]
Slice(s, a, b) ==
  LET lo == PyIdx(a, Len(s))
      hi == PyIdx(b, Len(s))
  IN IF lo >= hi THEN <<>> ELSE SubSeq(s, lo + 1, hi)

\* s.rfind(ch, a, b): the highest Python index in s[a:b] holding ch, or -1.
RFind(s, ch, a, b) ==
  LET lo == PyIdx(a, Len(s))
      hi == PyIdx(b, Len(s))
      hits == {i \in lo..(hi - 1) : s[i + 1] = ch}
  IN IF hits = {} THEN -1 ELSE SetMax(hits)

\* s.strip()
Strip(s) ==
  IF \A i \in 1..Len(s) : s[i] \in Whitespace THEN <<>>
  ELSE SubSeq(s,
              CHOOSE i \in 1..Len(s) :
                s[i] \notin Whitespace /\ \A j \in 1..(i - 1) : s[j] \in Whitespace,
              CHOOSE i \in 1..Len(s) :
                s[i] \notin Whitespace /\ \A j \in (i + 1)..Len(s) : s[j] \in Whitespace)

\* ------------------------------------------------------------- chunk_text

\* ChunkEnd with the window one character too wide.
ChunkEnd_wide(text, chunk_size, start) ==
  LET end == start + chunk_size + 1
      sentence_end == RFind(text, ".", start, end)
  IN IF end < Len(text) /\ sentence_end > start + (chunk_size \div 2)
     THEN sentence_end + 1
     ELSE end

\* Lines 66-73: the right edge of the window starting at start, pulled back
\* to just after the last period of the window when that period lies past
\* the window's midpoint and the window does not reach the end of the text.
ChunkEnd(text, chunk_size, start) ==
  LET end == start + chunk_size
      sentence_end == RFind(text, ".", start, end)
  IN IF end < Len(text) /\ sentence_end > start + (chunk_size \div 2)
     THEN sentence_end + 1
     ELSE end

\* Line 75: the trimmed slice of one iteration.
ChunkPiece(text, chunk_size, start) ==
  Strip(Slice(text, start, ChunkEnd(text, chunk_size, start)))

\* Lines 76-77: the piece is appended when it is non-empty.
ChunkAppend(chunks, piece) ==
  IF piece # <<>> THEN Append(chunks, piece) ELSE chunks

\* ChunkAdvance stepping back by the overlap twice.
ChunkAdvance_twice(text, chunk_size, overlap, start) ==
  ChunkEnd(text, chunk_size, start) - overlap - overlap

\* Line 79.
ChunkAdvance(text, chunk_size, overlap, start) ==
  ChunkEnd(text, chunk_size, start) - overlap

RECURSIVE chunk_loop(_, _, _, _, _)
\* Lines 65-81: the while loop, run to its end.
chunk_loop(text, chunk_size, overlap, start, chunks) ==
  IF start < Len(text)
  THEN chunk_loop(text, chunk_size, overlap,
                  ChunkAdvance(text, chunk_size, overlap, start),
                  ChunkAppend(chunks, ChunkPiece(text, chunk_size, start)))
  ELSE chunks

\* Lines 57-81.
chunk_text(text, chunk_size, overlap) ==
  IF Len(text) <= chunk_size THEN <<text>>
  ELSE chunk_loop(text, chunk_size, overlap, 0, <<>>)

\* ------------------------------------------------------------------ state

VARIABLES
  \* chunk_text as a running call: its arguments, its locals, its position
  c_text, c_size, c_overlap, c_start, c_chunks, c_pc, c_iter,
  \* the windows [start, end) the loop of chunk_text has sliced so far
  c_windows,
  \* mcp_server.py: the module-level flag
  is_initialized,
  \* document_searcher.py: the persistent collection, passage id -> passage
  collection,
  \* the document root on disk: whether it exists, and the files under it
  root_exists, corpus,
  \* the last tool call: what it was asked, what it did, what it returned
  last,
  \* the event loop: the handler tasks created for the requests in flight,
  \* each with its tool and its position, and the task the loop is running
  tasks, running

chunk_vars == <<c_text, c_size, c_overlap, c_start, c_chunks, c_pc, c_iter,
                c_windows>>

server_vars == <<is_initialized, collection, root_exists, corpus, last>>

loop_vars == <<tasks, running>>

vars == <<c_text, c_size, c_overlap, c_start, c_chunks, c_pc, c_iter, c_windows,
          is_initialized, collection, root_exists, corpus, last, tasks, running>>

\* ------------------------------------------- chunk_text, one step at a time

ChunkAlphabet == {"a", ".", " "}

RECURSIVE TextsOfLen(_)
TextsOfLen(n) ==
  IF n = 0 THEN {<<>>}
  ELSE {Append(t, ch) : t \in TextsOfLen(n - 1), ch \in ChunkAlphabet}

ChunkTexts == UNION {TextsOfLen(n) : n \in 0..MaxLen}

\* Lines 59-63: the short-text return, or entry into the loop.
ChunkCall ==
  /\ c_pc = "call"
  /\ \/ /\ Len(c_text) <= c_size
        /\ c_chunks' = <<c_text>>
        /\ c_pc' = "done"
        /\ UNCHANGED c_start
     \/ /\ Len(c_text) > c_size
        /\ c_chunks' = <<>>
        /\ c_start' = 0
        /\ c_pc' = "loop"
  /\ UNCHANGED <<c_text, c_size, c_overlap, c_iter, c_windows>>
  /\ UNCHANGED server_vars
  /\ UNCHANGED loop_vars

\* Lines 65-79: one iteration of the loop.
ChunkStep ==
  /\ c_pc = "loop"
  /\ c_start < Len(c_text)
  /\ c_iter < MaxIters
  /\ c_chunks' = ChunkAppend(c_chunks, ChunkPiece(c_text, c_size, c_start))
  /\ c_start' = ChunkAdvance(c_text, c_size, c_overlap, c_start)
  /\ c_iter' = c_iter + 1
  /\ c_windows' = Append(c_windows, <<c_start, ChunkEnd(c_text, c_size, c_start)>>)
  /\ UNCHANGED <<c_text, c_size, c_overlap, c_pc>>
  /\ UNCHANGED server_vars
  /\ UNCHANGED loop_vars

\* Lines 65, 81: the loop test fails and the chunks are returned.
ChunkReturn ==
  /\ c_pc = "loop"
  /\ c_start >= Len(c_text)
  /\ c_pc' = "done"
  /\ UNCHANGED <<c_text, c_size, c_overlap, c_start, c_chunks, c_iter, c_windows>>
  /\ UNCHANGED server_vars
  /\ UNCHANGED loop_vars

\* ------------------------------------------------------ document_processor

\* chunk_text's defaults, which process_document relies on.
DefaultChunkSize == 1000

DefaultOverlap == 200

\* Length of the one long document of the file universe.
LongLen == 1200

\* Length of the decoded text of the document that holds only characters
\* clean_text removes, separated by single spaces.
BlankLen == 2003

supported_extensions == {".pdf", ".docx", ".doc"}

\* Characters the second substitution of clean_text keeps: word characters,
\* whitespace, accented letters and . , ; : ! ? ( ) -
WordChars == {"a", "b", "A", "B", "p", "q", "r", "_", "0", "1"}

AccentChars == {"è", "à"}

PunctChars == {".", ",", ";", ":", "!", "?", "(", ")", "-"}

IsAllowed(ch) == ch \in WordChars \cup Whitespace \cup AccentChars \cup PunctChars

KeptByCollapse(p) == ~p[2]

\* Line 49: every run of whitespace becomes one space.
CollapseWhitespace(text) ==
  LET marked == [i \in 1..Len(text) |->
                   <<IF text[i] \in Whitespace THEN " " ELSE text[i],
                     i > 1 /\ text[i] \in Whitespace /\ text[i - 1] \in Whitespace>>]
      kept == SelectSeq(marked, KeptByCollapse)
  IN [i \in 1..Len(kept) |-> kept[i][1]]

\* Lines 46-55.
clean_text(text) ==
  SelectSeq(Strip(CollapseWhitespace(text)), IsAllowed)

\* The files that may lie under the document root.  dir is the chain of
\* directories from the root to the file, stem and ext its name, decoded what
\* the PDF or Word decoder yields (ok = FALSE: the decoder raises), lang the
\* language detect() reports, mtime its modification time.
ShortText == <<"a", ".", "\n", "\n", "a", "#">>

EditedText == <<"b", " ", "b", ".">>

OtherText == <<"è", "!">>

LongText == [i \in 1..LongLen |->
               IF i % 100 = 0 THEN "." ELSE IF i % 7 = 0 THEN " " ELSE "a"]

BlankText == [i \in 1..BlankLen |-> IF i % 2 = 1 THEN "#" ELSE " "]

HashText == <<"#">>

FileNames == {"F1", "F1m", "F2", "F3", "F3b", "F4", "F5",
              "F6", "F7", "F8", "F9", "F10"}

\* The files the document root of the running server is drawn from.
ServerFiles == {"F1", "F1m", "F2", "F3", "F3b", "F4", "F5"}

FileInfo ==
  [f \in FileNames |->
     CASE f = "F1"  -> [dir |-> << <<"A">> >>, stem |-> <<"p">>, ext |-> ".pdf",
                        ok |-> TRUE, decoded |-> ShortText, lang |-> "it", mtime |-> 1]
       [] f = "F1m" -> [dir |-> << <<"A">> >>, stem |-> <<"p">>, ext |-> ".pdf",
                        ok |-> TRUE, decoded |-> EditedText, lang |-> "it", mtime |-> 2]
       [] f = "F2"  -> [dir |-> << <<"A">> >>, stem |-> <<"p">>, ext |-> ".docx",
                        ok |-> TRUE, decoded |-> OtherText, lang |-> "unknown", mtime |-> 1]
       [] f = "F3"  -> [dir |-> << <<"B">> >>, stem |-> <<"q">>, ext |-> ".doc",
                        ok |-> TRUE, decoded |-> LongText, lang |-> "it", mtime |-> 1]
       [] f = "F3b" -> [dir |-> << <<"B">> >>, stem |-> <<"q">>, ext |-> ".doc",
                        ok |-> TRUE, decoded |-> BlankText, lang |-> "unknown", mtime |-> 2]
       [] f = "F4"  -> [dir |-> << <<"B">> >>, stem |-> <<"r">>, ext |-> ".pdf",
                        ok |-> FALSE, decoded |-> <<>>, lang |-> "unknown", mtime |-> 1]
       [] f = "F5"  -> [dir |-> << <<"B">> >>, stem |-> <<"n">>, ext |-> ".txt",
                        ok |-> TRUE, decoded |-> ShortText, lang |-> "it", mtime |-> 1]
       [] f = "F6"  -> [dir |-> << <<"A">>, <<"B">> >>, stem |-> <<"q">>, ext |-> ".pdf",
                        ok |-> TRUE, decoded |-> ShortText, lang |-> "it", mtime |-> 1]
       [] f = "F7"  -> [dir |-> <<>>, stem |-> <<"p">>, ext |-> ".pdf",
                        ok |-> TRUE, decoded |-> ShortText, lang |-> "it", mtime |-> 1]
       [] f = "F8"  -> [dir |-> << <<"A", "_", "p">> >>, stem |-> <<"q">>, ext |-> ".pdf",
                        ok |-> TRUE, decoded |-> ShortText, lang |-> "it", mtime |-> 1]
       [] f = "F9"  -> [dir |-> << <<"A">> >>, stem |-> <<"p", "_", "q">>, ext |-> ".pdf",
                        ok |-> TRUE, decoded |-> OtherText, lang |-> "unknown", mtime |-> 1]
       [] f = "F10" -> [dir |-> << <<"A">> >>, stem |-> <<"r">>, ext |-> ".pdf",
                        ok |-> TRUE, decoded |-> HashText, lang |-> "unknown", mtime |-> 1]]

\* The order in which rglob yields the files.
FileOrder == <<"F1", "F1m", "F2", "F3", "F3b", "F4", "F5",
               "F6", "F7", "F8", "F9", "F10">>

\* The name of the root directory itself (sop_documents).
RootName == <<"s">>

file_path(f) == <<FileInfo[f].dir, FileInfo[f].stem, FileInfo[f].ext>>

\* No two files of a directory tree share a path.
IsTree(files) ==
  \A f, g \in files : file_path(f) = file_path(g) => f = g

\* Lines 21-44: the decoder's text, trimmed; the empty text when it raises.
extract_text(f) ==
  IF FileInfo[f].ok THEN Strip(FileInfo[f].decoded) ELSE <<>>

\* Line 112: file_path.parent.name.
parent_name(f) ==
  IF FileInfo[f].dir = <<>> THEN RootName
  ELSE FileInfo[f].dir[Len(FileInfo[f].dir)]

\* Lines 83-129: no record (the empty sequence) or one document record.
process_document(f) ==
  IF FileInfo[f].ext \notin supported_extensions THEN <<>>
  ELSE IF extract_text(f) = <<>> THEN <<>>
  ELSE LET cleaned_text == clean_text(extract_text(f))
           chunks == chunk_text(cleaned_text, DefaultChunkSize, DefaultOverlap)
       IN << [file_path |-> file_path(f),
              sop_category |-> parent_name(f),
              sop_name |-> FileInfo[f].stem,
              language |-> FileInfo[f].lang,
              chunks |-> chunks,
              chunk_count |-> Len(chunks),
              file_size |-> Len(FileInfo[f].decoded),
              last_modified |-> FileInfo[f].mtime] >>

RECURSIVE ProcessAll(_)
ProcessAll(files) ==
  IF files = {} THEN <<>>
  ELSE LET f == CHOOSE x \in files : TRUE
       IN (f :> process_document(f)) @@ ProcessAll(files \ {f})

\* Each file's record, computed once.
Processed == ProcessAll(FileNames)

RECURSIVE scan_from(_, _)
scan_from(files, k) ==
  IF k > Len(FileOrder) THEN <<>>
  ELSE (IF FileOrder[k] \in files
           /\ FileInfo[FileOrder[k]].ext \in supported_extensions
        THEN Processed[FileOrder[k]] ELSE <<>>)
       \o scan_from(files, k + 1)

\* Lines 131-148.
scan_sop_documents(exists, files) ==
  IF ~exists THEN <<>> ELSE scan_from(files, 1)

\* Lines 150-157: the immediate subdirectories of the root, as a set (the
\* code returns them sorted).
get_sop_categories(exists, files) ==
  IF ~exists THEN {}
  ELSE {FileInfo[f].dir[1] : f \in {g \in files : FileInfo[g].dir # <<>>}}

\* ------------------------------------------------------- document_searcher

\* What fails during one request: nothing, or one of the collaborators the
\* code wraps in try/except (the collection's count/get, the embedding model,
\* the collection's add, its delete, its query).
Faults == {"none", "stats", "embed", "write", "clear", "query"}

\* The collaborators each handler can reach.
QueryFaults == Faults \ {"clear"}

StatsFaults == {"none", "stats"}

RefreshFaults == Faults \ {"query"}

StartupFaults == {"none", "stats", "embed", "write"}

\* Python's None, where a category is optional.
None == <<"None">>

EmptyCollection == [id \in {} |-> id]

RECURSIVE Digits(_)
\* str(i) for i >= 0.
Digits(i) ==
  LET d == <<"0", "1", "2", "3", "4", "5", "6", "7", "8", "9">>
  IN IF i < 10 THEN <<d[i + 1]>> ELSE Append(Digits(i \div 10), d[(i % 10) + 1])

\* Line 83: f"{doc['sop_category']}_{doc['sop_name']}_chunk_{i}"
chunk_id(doc, i) ==
  doc.sop_category \o <<"_">> \o doc.sop_name
    \o <<"_", "c", "h", "u", "n", "k", "_">> \o Digits(i)

\* Lines 81-99, for one document: an entry per chunk.
DocEntries(doc) ==
  [k \in 1..Len(doc.chunks) |->
     [id |-> chunk_id(doc, k - 1),
      document |-> doc.chunks[k],
      metadata |-> [sop_category |-> doc.sop_category,
                    sop_name |-> doc.sop_name,
                    file_path |-> doc.file_path,
                    language |-> doc.language,
                    chunk_index |-> k - 1,
                    total_chunks |-> doc.chunk_count,
                    file_size |-> doc.file_size,
                    last_modified |-> doc.last_modified]]]

RECURSIVE Flatten(_)
\* Lines 76-99: the entries of every document, in order.
Flatten(documents) ==
  IF documents = <<>> THEN <<>>
  ELSE DocEntries(Head(documents)) \o Flatten(Tail(documents))

EntryIds(entries) == {entries[k].id : k \in 1..Len(entries)}

\* The passage an entry stores.  The embedding is a function of the text
\* alone, so the text stands for it.
PassageOf(e) == [document |-> e.document, metadata |-> e.metadata]

RECURSIVE InsertUntilDuplicate(_, _, _)
InsertUntilDuplicate(coll, entries, seen) ==
  IF entries = <<>> THEN [raised |-> FALSE, coll |-> coll]
  ELSE IF Head(entries).id \in seen THEN [raised |-> TRUE, coll |-> coll]
  ELSE InsertUntilDuplicate(
         IF Head(entries).id \in DOMAIN coll THEN coll
         ELSE (Head(entries).id :> PassageOf(Head(entries))) @@ coll,
         Tail(entries), seen \cup {Head(entries).id})

\* collection_add writing entry by entry, so that a batch rejected for a
\* repeated id has already stored the entries before it.
collection_add_partial(coll, entries) ==
  InsertUntilDuplicate(coll, entries, {})

\* Lines 114-119, collection.add of the persistent client: a batch that
\* names an id twice is rejected whole; an id the collection already holds
\* is left as it is; the others are inserted.
collection_add(coll, entries) ==
  IF Cardinality(EntryIds(entries)) # Len(entries)
  THEN [raised |-> TRUE, coll |-> coll]
  ELSE [raised |-> FALSE,
        coll |-> [id \in (DOMAIN coll) \cup EntryIds(entries) |->
                    IF id \in DOMAIN coll THEN coll[id]
                    ELSE PassageOf(CHOOSE e \in {entries[k] : k \in 1..Len(entries)} :
                                     e.id = id)]]

\* Lines 65-126.
add_documents(coll, documents, fault) ==
  LET entries == Flatten(documents)
  IN IF entries = <<>> THEN [ok |-> FALSE, coll |-> coll]
     ELSE IF fault = "embed" THEN [ok |-> FALSE, coll |-> coll]
     ELSE IF fault = "write" THEN [ok |-> FALSE, coll |-> coll]
     ELSE LET r == collection_add(coll, entries)
          IN [ok |-> ~r.raised, coll |-> r.coll]

\* Lines 147-150: the where clause, as the set of ids it admits.
WhereIds(coll, sop_category) ==
  IF sop_category # None /\ sop_category # <<>>
  THEN {id \in DOMAIN coll : coll[id].metadata.sop_category = sop_category}
  ELSE DOMAIN coll

\* Lines 161-172: one formatted result.
FormatResult(coll, id) ==
  [content |-> coll[id].document,
   sop_category |-> coll[id].metadata.sop_category,
   sop_name |-> coll[id].metadata.sop_name,
   file_path |-> coll[id].metadata.file_path]

\* Lines 128-179: the result lists search may return.  Which n_results of
\* the admitted passages are nearest depends on the embedding geometry, so
\* every choice of that many is possible.  A failing embedding or query, or
\* a non-positive n_results (the collection rejects it), gives the empty list.
search(coll, n_results, sop_category, fault) ==
  IF fault \in {"embed", "query"} \/ n_results <= 0 THEN {{}}
  ELSE LET admitted == WhereIds(coll, sop_category)
           n == IF n_results < Cardinality(admitted)
                THEN n_results ELSE Cardinality(admitted)
       IN {{FormatResult(coll, id) : id \in ids} :
             ids \in {S \in SUBSET admitted : Cardinality(S) = n}}

\* Lines 181-209: one summary per document name of the category.
get_sop_by_category(coll, category, fault) ==
  IF fault = "query" THEN {}
  ELSE {coll[id].metadata.sop_name :
          id \in {i \in DOMAIN coll : coll[i].metadata.sop_category = category}}

\* Lines 211-239: ok = FALSE stands for the empty record returned on failure.
get_collection_stats(coll, fault) ==
  IF fault = "stats"
  THEN [ok |-> FALSE, total_chunks |-> 0, total_documents |-> 0, categories |-> {}]
  ELSE [ok |-> TRUE,
        total_chunks |-> Cardinality(DOMAIN coll),
        total_documents |-> Cardinality({coll[id].metadata.sop_name : id \in DOMAIN coll}),
        categories |-> {coll[id].metadata.sop_category : id \in DOMAIN coll}]

\* stats.get('total_chunks', 0)
TotalChunks(stats) == IF stats.ok THEN stats.total_chunks ELSE 0

\* Lines 241-251.
clear_collection(coll, fault) ==
  IF fault = "clear" THEN [ok |-> FALSE, coll |-> coll]
  ELSE [ok |-> TRUE, coll |-> EmptyCollection]

\* --------------------------------------------------------------- mcp_server

\* Largest max_results a search request asks for.
MaxResults == 2

\* Most files under the document root in SpecTree.
MaxFiles == 3

Query == "gestione"

\* The category arguments a request may carry: none, the empty string, or
\* the name of a directory of the file universe.
CategoryArgs == {None, <<>>, <<"A">>, <<"B">>}

\* What a handler did on its way: whether the bootstrap body ran, the chunk
\* total it read, whether the corpus was scanned, whether clear_collection and
\* add_documents were called and what they returned, and whether
\* initialize_server raised.
NoTrace ==
  [ran |-> FALSE, total |-> 0, scanned |-> FALSE, clear_called |-> FALSE,
   clear_ret |-> FALSE, add_called |-> FALSE, add_ret |-> FALSE,
   raised |-> FALSE]

\* initialize_server scanning and adding whatever the chunk total is.
initialize_server_rescan(init, coll, exists, files, fault) ==
  IF init THEN [init |-> init, coll |-> coll, did |-> NoTrace]
  ELSE
    LET total == TotalChunks(get_collection_stats(coll, fault))
        documents == scan_sop_documents(exists, files)
        scanned == [NoTrace EXCEPT !.ran = TRUE, !.total = total, !.scanned = TRUE]
    IN IF documents # <<>>
       THEN LET r == add_documents(coll, documents, fault)
                added == [scanned EXCEPT !.add_called = TRUE, !.add_ret = r.ok]
            IN IF r.ok
               THEN [init |-> TRUE, coll |-> r.coll, did |-> added]
               ELSE [init |-> FALSE, coll |-> r.coll,
                     did |-> [added EXCEPT !.raised = TRUE]]
       ELSE [init |-> TRUE, coll |-> coll, did |-> scanned]

\* initialize_server setting the flag before it knows add_documents succeeded.
initialize_server_early_flag(init, coll, exists, files, fault) ==
  IF init THEN [init |-> init, coll |-> coll, did |-> NoTrace]
  ELSE
    LET total == TotalChunks(get_collection_stats(coll, fault))
        ran == [NoTrace EXCEPT !.ran = TRUE, !.total = total]
    IN IF total = 0
       THEN LET documents == scan_sop_documents(exists, files)
                scanned == [ran EXCEPT !.scanned = TRUE]
            IN IF documents # <<>>
               THEN LET r == add_documents(coll, documents, fault)
                        added == [scanned EXCEPT !.add_called = TRUE, !.add_ret = r.ok]
                    IN [init |-> TRUE, coll |-> r.coll,
                        did |-> [added EXCEPT !.raised = ~r.ok]]
               ELSE [init |-> TRUE, coll |-> coll, did |-> scanned]
       ELSE [init |-> TRUE, coll |-> coll, did |-> ran]

\* initialize_server treating an empty scan as a failure, as refresh does.
initialize_server_strict(init, coll, exists, files, fault) ==
  IF init THEN [init |-> init, coll |-> coll, did |-> NoTrace]
  ELSE
    LET total == TotalChunks(get_collection_stats(coll, fault))
        ran == [NoTrace EXCEPT !.ran = TRUE, !.total = total]
    IN IF total = 0
       THEN LET documents == scan_sop_documents(exists, files)
                scanned == [ran EXCEPT !.scanned = TRUE]
            IN IF documents # <<>>
               THEN LET r == add_documents(coll, documents, fault)
                        added == [scanned EXCEPT !.add_called = TRUE, !.add_ret = r.ok]
                    IN IF r.ok
                       THEN [init |-> TRUE, coll |-> r.coll, did |-> added]
                       ELSE [init |-> FALSE, coll |-> r.coll,
                             did |-> [added EXCEPT !.raised = TRUE]]
               ELSE [init |-> FALSE, coll |-> coll,
                     did |-> [scanned EXCEPT !.raised = TRUE]]
       ELSE [init |-> TRUE, coll |-> coll, did |-> ran]

\* Lines 33-72.  The result carries the flag and the collection afterwards.
initialize_server(init, coll, exists, files, fault) ==
  IF init THEN [init |-> init, coll |-> coll, did |-> NoTrace]
  ELSE
    LET total == TotalChunks(get_collection_stats(coll, fault))
        ran == [NoTrace EXCEPT !.ran = TRUE, !.total = total]
    IN IF total = 0
       THEN LET documents == scan_sop_documents(exists, files)
                scanned == [ran EXCEPT !.scanned = TRUE]
            IN IF documents # <<>>
               THEN LET r == add_documents(coll, documents, fault)
                        added == [scanned EXCEPT !.add_called = TRUE, !.add_ret = r.ok]
                    IN IF r.ok
                       THEN [init |-> TRUE, coll |-> r.coll, did |-> added]
                       ELSE [init |-> FALSE, coll |-> r.coll,
                             did |-> [added EXCEPT !.raised = TRUE]]
               ELSE [init |-> TRUE, coll |-> coll, did |-> scanned]
       ELSE [init |-> TRUE, coll |-> coll, did |-> ran]

\* ensure_initialized returning at once whatever the flag says.
ensure_initialized_skip(init, coll, exists, files, fault) ==
  [init |-> init, coll |-> coll, did |-> NoTrace]

\* Lines 74-79.
ensure_initialized(init, coll, exists, files, fault) ==
  IF ~init THEN initialize_server(init, coll, exists, files, fault)
  ELSE [init |-> init, coll |-> coll, did |-> NoTrace]

\* The envelope a handler returns: the success flag, the error message, the
\* request echoed back, the results (search, guidance), the summaries
\* (get_sop_by_category), the categories and statistics (status, list).
Payload(success, error, echo, results) ==
  [success |-> success, error |-> error, echo |-> echo, results |-> results]

InitError == "Failed to initialize document search index"

Call(op, fault, category, n_results, b, payload) ==
  [op |-> op, fault |-> fault, category |-> category, n_results |-> n_results,
   pre_init |-> is_initialized, did |-> b.did,
   payload |-> payload]

\* Lines 81-123.
search_sop_documents ==
  \E category \in CategoryArgs, n_results \in 1..MaxResults, fault \in QueryFaults :
    LET b == ensure_initialized(is_initialized, collection, root_exists, corpus, fault)
    IN /\ last.op = "none"
       /\ is_initialized' = b.init
       /\ collection' = b.coll
       /\ IF b.did.raised
          THEN last' = Call("search", fault, category, n_results, b,
                            Payload(FALSE, InitError, Query, {}))
          ELSE \E results \in search(b.coll, n_results, category, fault) :
                 last' = Call("search", fault, category, n_results, b,
                              Payload(TRUE, "", Query, results))
       /\ UNCHANGED <<root_exists, corpus>>
       /\ UNCHANGED chunk_vars
       /\ UNCHANGED loop_vars

\* Lines 186-238: guidance asks for five results.
get_sop_guidance ==
  \E category \in CategoryArgs, fault \in QueryFaults :
    LET b == ensure_initialized(is_initialized, collection, root_exists, corpus, fault)
    IN /\ last.op = "none"
       /\ is_initialized' = b.init
       /\ collection' = b.coll
       /\ IF b.did.raised
          THEN last' = Call("guidance", fault, category, 5, b,
                            Payload(FALSE, InitError, Query, {}))
          ELSE \E results \in search(b.coll, 5, category, fault) :
                 last' = Call("guidance", fault, category, 5, b,
                              Payload(TRUE, "", Query, results))
       /\ UNCHANGED <<root_exists, corpus>>
       /\ UNCHANGED chunk_vars
       /\ UNCHANGED loop_vars

\* Lines 153-184.
get_sop_by_category_tool ==
  \E category \in CategoryArgs \ {None}, fault \in QueryFaults :
    LET b == ensure_initialized(is_initialized, collection, root_exists, corpus, fault)
    IN /\ last.op = "none"
       /\ is_initialized' = b.init
       /\ collection' = b.coll
       /\ last' = Call("by_category", fault, category, 0, b,
                       IF b.did.raised
                       THEN Payload(FALSE, InitError, category, {})
                       ELSE Payload(TRUE, "", category,
                                    get_sop_by_category(b.coll, category, fault)))
       /\ UNCHANGED <<root_exists, corpus>>
       /\ UNCHANGED chunk_vars
       /\ UNCHANGED loop_vars

\* Lines 125-151.
list_sop_categories ==
  \E fault \in StatsFaults :
    /\ last.op = "none"
    /\ last' = Call("list", fault, None, 0,
                    [did |-> NoTrace],
                    Payload(TRUE, "", None,
                            <<get_sop_categories(root_exists, corpus),
                              get_collection_stats(collection, fault)>>))
    /\ UNCHANGED <<is_initialized, collection, root_exists, corpus>>
    /\ UNCHANGED chunk_vars
    /\ UNCHANGED loop_vars

\* Lines 296-324.
get_server_status ==
  \E fault \in StatsFaults :
    /\ last.op = "none"
    /\ last' = Call("status", fault, None, 0,
                    [did |-> NoTrace],
                    Payload(TRUE, "", None,
                            <<is_initialized,
                              get_sop_categories(root_exists, corpus),
                              get_collection_stats(collection, fault)>>))
    /\ UNCHANGED <<is_initialized, collection, root_exists, corpus>>
    /\ UNCHANGED chunk_vars
    /\ UNCHANGED loop_vars

NoDocsError == "No documents found to process"

AddError == "Failed to add documents to search index"

\* Lines 255-287 as a function of the state: the flag and the collection
\* afterwards, what was done, and the envelope.
refresh(init, coll, exists, files, fault) ==
  LET c == clear_collection(coll, fault)
      documents == scan_sop_documents(exists, files)
      cleared == [NoTrace EXCEPT !.clear_called = TRUE, !.clear_ret = c.ok,
                                         !.scanned = TRUE]
  IN IF documents = <<>>
     THEN [init |-> init, coll |-> c.coll, did |-> cleared,
           payload |-> Payload(FALSE, NoDocsError, None, {})]
     ELSE LET r == add_documents(c.coll, documents, fault)
              added == [cleared EXCEPT !.add_called = TRUE, !.add_ret = r.ok]
          IN IF r.ok
             THEN [init |-> TRUE, coll |-> r.coll, did |-> added,
                   payload |-> Payload(TRUE, "", None,
                                       {get_collection_stats(r.coll, fault)})]
             ELSE [init |-> init, coll |-> r.coll, did |-> added,
                   payload |-> Payload(FALSE, AddError, None, {})]

\* Lines 240-294.
refresh_sop_database ==
  \E fault \in RefreshFaults :
    LET r == refresh(is_initialized, collection, root_exists, corpus, fault)
    IN /\ last.op = "none"
       /\ is_initialized' = r.init
       /\ collection' = r.coll
       /\ last' = Call("refresh", fault, None, 0, r, r.payload)
       /\ UNCHANGED <<root_exists, corpus>>
       /\ UNCHANGED chunk_vars
       /\ UNCHANGED loop_vars

\* main_local.py, lines 24-28: initialize_server run at start-up.
startup_initialize ==
  \E fault \in StartupFaults :
    LET b == initialize_server(is_initialized, collection, root_exists, corpus, fault)
    IN /\ last.op = "none"
       /\ ~is_initialized
       /\ is_initialized' = b.init
       /\ collection' = b.coll
       /\ last' = Call("startup", fault, None, 0, b,
                       Payload(~b.did.raised,
                               IF b.did.raised THEN InitError ELSE "", None, {}))
       /\ UNCHANGED <<root_exists, corpus>>
       /\ UNCHANGED chunk_vars
       /\ UNCHANGED loop_vars

\* ------------------------------------------------------------- event loop

\* Most requests in flight at once.
MaxTasks == 2

TaskIds == 1..MaxTasks

\* The tools whose handlers are followed statement by statement.
LoopOps == {"search", "refresh"}

FreeTask == [op |-> "none", pc |-> "free"]

LoopIdle ==
  /\ tasks = [t \in TaskIds |-> FreeTask]
  /\ running = 0

\* YieldPoints as if the scan and the add were awaited on a worker thread.
YieldPoints_offload == {"scan", "add", "rescan", "readd"}

\* The positions at which a handler awaits something that hands control back
\* to the event loop.  The only awaits of the handlers (lines 79, 102, 167,
\* 204) are on coroutines of the module itself, which run inline; every call
\* to the scanner and the searcher is a plain synchronous call.
YieldPoints == {}

\* The first statement of a handler.
FirstPc(op) == IF op = "refresh" THEN "clear" ELSE "ensure"

\* The running task is task t, in the handler of op, at position pc.
At(t, op, pc) ==
  /\ running = t
  /\ tasks[t].op = op
  /\ tasks[t].pc = pc

\* Task t moves to position pc; the loop takes back control when the handler
\* has returned or waits at a yield point.
GoTo(t, pc) ==
  /\ tasks' = [tasks EXCEPT ![t].pc = pc]
  /\ running' = IF pc = "done" \/ pc \in YieldPoints THEN 0 ELSE t

\* The transport reads a request and creates the task of its handler.
dispatch ==
  \E t \in TaskIds, op \in LoopOps :
    /\ tasks[t].pc = "free"
    /\ tasks' = [tasks EXCEPT ![t] = [op |-> op, pc |-> "ready"]]
    /\ UNCHANGED running
    /\ UNCHANGED server_vars
    /\ UNCHANGED chunk_vars

\* The loop, holding control, runs a task that is new or waits at a yield point.
loop_run ==
  \E t \in TaskIds :
    /\ running = 0
    /\ tasks[t].pc \notin {"free", "done"}
    /\ running' = t
    /\ tasks' = [tasks EXCEPT ![t].pc =
                   IF @ = "ready" THEN FirstPc(tasks[t].op) ELSE @]
    /\ UNCHANGED server_vars
    /\ UNCHANGED chunk_vars

\* Lines 78-79, 102: ensure_initialized tests the flag.
t_ensure ==
  \E t \in TaskIds :
    /\ At(t, "search", "ensure")
    /\ GoTo(t, IF is_initialized THEN "query" ELSE "stats")
    /\ UNCHANGED server_vars
    /\ UNCHANGED chunk_vars

\* Lines 43-45: the bootstrap reads the chunk total.
t_stats ==
  \E t \in TaskIds :
    /\ At(t, "search", "stats")
    /\ GoTo(t, IF TotalChunks(get_collection_stats(collection, "none")) = 0
               THEN "scan" ELSE "flag")
    /\ UNCHANGED server_vars
    /\ UNCHANGED chunk_vars

\* Lines 48-50: the bootstrap scans the root.
t_scan ==
  \E t \in TaskIds :
    /\ At(t, "search", "scan")
    /\ GoTo(t, IF scan_sop_documents(root_exists, corpus) # <<>>
               THEN "add" ELSE "flag")
    /\ UNCHANGED server_vars
    /\ UNCHANGED chunk_vars

\* Lines 52-59: the bootstrap adds the documents; a failure raises, and the
\* handler returns the failure envelope.
t_add ==
  \E t \in TaskIds :
    LET r == add_documents(collection, scan_sop_documents(root_exists, corpus), "none")
    IN /\ At(t, "search", "add")
       /\ collection' = r.coll
       /\ GoTo(t, IF r.ok THEN "flag" ELSE "done")
       /\ UNCHANGED <<is_initialized, root_exists, corpus, last>>
       /\ UNCHANGED chunk_vars

\* Lines 54, 63, 65: the bootstrap sets the flag.
t_flag ==
  \E t \in TaskIds :
    /\ At(t, "search", "flag")
    /\ is_initialized' = TRUE
    /\ GoTo(t, "query")
    /\ UNCHANGED <<collection, root_exists, corpus, last>>
    /\ UNCHANGED chunk_vars

\* Lines 104-115: the handler queries the index and returns.
t_query ==
  \E t \in TaskIds :
    /\ At(t, "search", "query")
    /\ GoTo(t, "done")
    /\ UNCHANGED server_vars
    /\ UNCHANGED chunk_vars

\* Line 259: refresh clears the collection.
r_clear ==
  \E t \in TaskIds :
    /\ At(t, "refresh", "clear")
    /\ collection' = clear_collection(collection, "none").coll
    /\ GoTo(t, "rescan")
    /\ UNCHANGED <<is_initialized, root_exists, corpus, last>>
    /\ UNCHANGED chunk_vars

\* Lines 262-268: refresh scans the root and returns if it finds nothing.
r_scan ==
  \E t \in TaskIds :
    /\ At(t, "refresh", "rescan")
    /\ GoTo(t, IF scan_sop_documents(root_exists, corpus) = <<>>
               THEN "done" ELSE "readd")
    /\ UNCHANGED server_vars
    /\ UNCHANGED chunk_vars

\* Lines 271-287: refresh adds the documents and, if that worked, sets the
\* flag, then returns.
r_add ==
  \E t \in TaskIds :
    LET r == add_documents(collection, scan_sop_documents(root_exists, corpus), "none")
    IN /\ At(t, "refresh", "readd")
       /\ collection' = r.coll
       /\ is_initialized' = (is_initialized \/ r.ok)
       /\ GoTo(t, "done")
       /\ UNCHANGED <<root_exists, corpus, last>>
       /\ UNCHANGED chunk_vars

\* main.py, line 17: the transport writes the response of a finished task.
respond ==
  \E t \in TaskIds :
    /\ tasks[t].pc = "done"
    /\ tasks' = [tasks EXCEPT ![t] = FreeTask]
    /\ UNCHANGED running
    /\ UNCHANGED server_vars
    /\ UNCHANGED chunk_vars

\* ------------------------------------------------------------- environment

\* The directory trees the document root may hold.
Trees == {S \in SUBSET ServerFiles : IsTree(S)}

\* The collections an earlier run of the server may have left on disk: the
\* empty one, and what ingesting some tree into it stores.
PersistedCollections ==
  {add_documents(EmptyCollection, scan_sop_documents(TRUE, S), "none").coll : S \in Trees}

Idle ==
  [op |-> "none", fault |-> "none", category |-> None, n_results |-> 0,
   pre_init |-> FALSE, did |-> NoTrace,
   payload |-> Payload(TRUE, "", None, {})]

\* Between two requests somebody adds, removes or replaces one file under
\* the root, or removes or creates the root itself.
edit_corpus ==
  /\ last.op = "none"
  /\ \/ \E f \in ServerFiles :
          /\ root_exists
          /\ corpus' \in {corpus \ {f}} \cup
                         {(corpus \ {g \in corpus : file_path(g) = file_path(f)}) \cup {f}}
          /\ corpus' # corpus
          /\ UNCHANGED root_exists
     \/ /\ root_exists' = ~root_exists
        /\ corpus' = {}
  /\ UNCHANGED <<is_initialized, collection, last>>
  /\ UNCHANGED chunk_vars
  /\ UNCHANGED loop_vars

\* main.py, line 17: the transport hands the envelope to the caller and takes
\* the next request.
return_response ==
  /\ last.op # "none"
  /\ last' = Idle
  /\ UNCHANGED <<is_initialized, collection, root_exists, corpus>>
  /\ UNCHANGED chunk_vars
  /\ UNCHANGED loop_vars

ChunkIdle ==
  /\ c_text = <<>>
  /\ c_size = DefaultChunkSize
  /\ c_overlap = DefaultOverlap
  /\ c_start = 0
  /\ c_chunks = <<>>
  /\ c_pc = "idle"
  /\ c_iter = 0
  /\ c_windows = <<>>

\* The server as it starts: the flag as line 31 sets it, the collection and
\* the document root as they are on disk.
Init ==
  /\ ChunkIdle
  /\ is_initialized = FALSE
  /\ collection \in PersistedCollections
  /\ root_exists \in BOOLEAN
  /\ corpus \in Trees
  /\ root_exists \/ corpus = {}
  /\ last = Idle
  /\ LoopIdle

Next ==
  \/ startup_initialize
  \/ search_sop_documents
  \/ get_sop_guidance
  \/ get_sop_by_category_tool
  \/ list_sop_categories
  \/ get_server_status
  \/ refresh_sop_database
  \/ return_response
  \/ edit_corpus

Spec == Init /\ [][Next]_vars

\* chunk_text called on every text, chunk size and overlap within the bounds.
InitChunk ==
  /\ c_text \in ChunkTexts
  /\ c_size \in 1..MaxSize
  /\ c_overlap \in 0..MaxOverlap
  /\ c_start = 0
  /\ c_chunks = <<>>
  /\ c_pc = "call"
  /\ c_iter = 0
  /\ c_windows = <<>>
  /\ is_initialized = FALSE
  /\ collection = EmptyCollection
  /\ root_exists = FALSE
  /\ corpus = {}
  /\ last = Idle
  /\ LoopIdle

NextChunk ==
  \/ ChunkCall
  \/ ChunkStep
  \/ ChunkReturn

SpecChunk == InitChunk /\ [][NextChunk]_vars

\* The directory trees of at most MaxFiles files, over every file of the
\* universe: nested directories, files directly under the root, names with
\* underscores, a document of characters clean_text removes.
WideTrees ==
  {S \in SUBSET FileNames : IsTree(S) /\ Cardinality(S) <= MaxFiles}

\* The server starting on one of those trees with an empty index.
InitTree ==
  /\ ChunkIdle
  /\ is_initialized = FALSE
  /\ collection = EmptyCollection
  /\ root_exists \in BOOLEAN
  /\ corpus \in WideTrees
  /\ root_exists \/ corpus = {}
  /\ last = Idle
  /\ LoopIdle

NextTree ==
  \/ startup_initialize
  \/ refresh_sop_database
  \/ list_sop_categories
  \/ return_response

SpecTree == InitTree /\ [][NextTree]_vars

\* The documents under the root while requests are in flight: none, one, or
\* two whose passages get the same identifier.
LoopTrees == SUBSET {"F1", "F2"}

\* The server started without the start-up bootstrap (main.py), the index
\* empty or left by an earlier run.
InitLoop ==
  /\ ChunkIdle
  /\ is_initialized = FALSE
  /\ collection \in {EmptyCollection,
                     add_documents(EmptyCollection,
                                   scan_sop_documents(TRUE, {"F1"}), "none").coll}
  /\ root_exists = TRUE
  /\ corpus \in LoopTrees
  /\ last = Idle
  /\ LoopIdle

NextLoop ==
  \/ dispatch
  \/ loop_run
  \/ t_ensure
  \/ t_stats
  \/ t_scan
  \/ t_add
  \/ t_flag
  \/ t_query
  \/ r_clear
  \/ r_scan
  \/ r_add
  \/ respond

SpecLoop == InitLoop /\ [][NextLoop]_vars

\* The length at which three windows of the default size, each starting the
\* default stride after the one before, reach the end of the text.
ScenarioLen == 3 * (DefaultChunkSize - DefaultOverlap)

\* Python indices of a document of that length where a period or a space may
\* stand: before and after the midpoint of the first window, at its last
\* position, past the midpoint of the second window, and in the last window.
ScenarioMarks == <<300, 600, 999, 1500, 2300>>

ScenarioText(m) ==
  [i \in 1..ScenarioLen |->
     IF \E k \in 1..Len(ScenarioMarks) : ScenarioMarks[k] = i - 1
     THEN m[CHOOSE k \in 1..Len(ScenarioMarks) : ScenarioMarks[k] = i - 1]
     ELSE "a"]

\* Cleaned documents of ScenarioLen characters: letters, with a letter, a
\* period or a single space at each mark.
ScenarioTexts ==
  {ScenarioText(m) : m \in [1..Len(ScenarioMarks) -> ChunkAlphabet]}

\* chunk_text called as process_document calls it, on each of those documents.
InitScenario ==
  /\ c_text \in ScenarioTexts
  /\ c_size = DefaultChunkSize
  /\ c_overlap = DefaultOverlap
  /\ c_start = 0
  /\ c_chunks = <<>>
  /\ c_pc = "call"
  /\ c_iter = 0
  /\ c_windows = <<>>
  /\ is_initialized = FALSE
  /\ collection = EmptyCollection
  /\ root_exists = FALSE
  /\ corpus = {}
  /\ last = Idle
  /\ LoopIdle

SpecScenario == InitScenario /\ [][NextChunk]_vars

\* ------------------------------------------------------------------ claims

QueryOps == {"search", "guidance", "by_category"}

BootOps == QueryOps \cup {"startup"}

\* The documents the handler that just answered found on disk (the corpus
\* does not change while a response is pending).
Scanned == scan_sop_documents(root_exists, corpus)

ScannedEntries == Flatten(Scanned)

\* The collection as the add_documents call of the handler about to answer
\* finds it: emptied if clear_collection ran and succeeded first.
BeforeAdd(did) ==
  IF did.clear_called /\ did.clear_ret THEN EmptyCollection ELSE collection

\* C1: re-ingesting an unmodified document set is idempotent.  Whenever a
\* handler has called add_documents on the scanned set D with the embedding
\* model and the collection working, the call succeeded, every passage of D is
\* stored under its identifier as D gives it (an identifier already present is
\* overwritten), and calling add_documents(D) again succeeds and leaves the
\* same identifiers and the same chunk count.
C1_ReingestIdempotent ==
  (last.did.add_called /\ last.fault \notin {"embed", "write"} /\ ScannedEntries # <<>>)
    => LET again == add_documents(collection, Scanned, "none")
       IN /\ last.did.add_ret
          /\ again.ok
          /\ DOMAIN again.coll = DOMAIN collection
          /\ Cardinality(DOMAIN again.coll) = Cardinality(DOMAIN collection)
          /\ \A k \in 1..Len(ScannedEntries) :
               /\ ScannedEntries[k].id \in DOMAIN collection
               /\ collection[ScannedEntries[k].id] = PassageOf(ScannedEntries[k])

\* C2: whenever the bootstrap body runs and the index reports a chunk total
\* above zero, the service becomes Ready without raising, without scanning
\* the corpus, without calling add_documents, and the index is unchanged.
C2_PopulatedBootstrap ==
  [][(last'.op \in BootOps /\ last'.did.ran /\ last'.did.total > 0)
       => /\ is_initialized'
          /\ ~last'.did.raised
          /\ ~last'.did.scanned
          /\ ~last'.did.add_called
          /\ collection' = collection]_vars

\* A bootstrap that found a populated index has answered.
C2_Witness ==
  /\ last.op \in BootOps
  /\ last.did.ran
  /\ last.did.total > 0
  /\ is_initialized
  /\ Scanned # <<>>

\* C3: when the bootstrap scan yields documents and add_documents fails, the
\* error reaches the caller (a failure envelope, or the exception at start-up)
\* and the flag stays unset; every request that finds the flag unset runs the
\* bootstrap body again; and a bootstrap whose add_documents succeeds ends
\* Ready.
C3_BootstrapRetryable ==
  /\ (last.op \in BootOps /\ last.did.add_called /\ ~last.did.add_ret)
       => /\ last.did.raised
          /\ ~is_initialized
          /\ ~last.payload.success
          /\ last.payload.error = InitError
  /\ (last.op \in BootOps /\ ~last.pre_init) => last.did.ran
  /\ (last.op \in BootOps /\ last.did.add_called /\ last.did.add_ret)
       => is_initialized /\ ~last.did.raised

\* A bootstrap whose add_documents failed has answered a query.
C3_Witness ==
  /\ last.op \in QueryOps
  /\ last.did.ran
  /\ last.did.scanned
  /\ last.did.add_called
  /\ ~last.did.add_ret
  /\ ~is_initialized

\* C4: when the index is empty and the root is missing or holds no
\* processable file, the bootstrap scans, finds nothing, does not raise and
\* ends Ready; once Ready, the flag stays set and requests neither run the
\* bootstrap body nor (refresh apart) scan the corpus.
C4_EmptyCorpusBootstrap ==
  [][/\ (last'.op \in BootOps /\ ~is_initialized
           /\ collection = EmptyCollection /\ Scanned = <<>>)
          => /\ last'.did.ran
             /\ last'.did.scanned
             /\ ~last'.did.raised
             /\ last'.payload.success
             /\ is_initialized'
             /\ collection' = EmptyCollection
     /\ is_initialized => is_initialized'
     /\ (is_initialized /\ last'.op \in BootOps)
          => ~last'.did.ran /\ ~last'.did.scanned]_vars

\* A bootstrap over files none of which is processable has ended Ready
\* with an empty index.
C4_Witness ==
  /\ last.op \in BootOps
  /\ last.did.ran
  /\ last.did.scanned
  /\ ~last.did.add_called
  /\ is_initialized
  /\ collection = EmptyCollection
  /\ root_exists
  /\ corpus # {}

\* C5: a refresh that finds no document returns a failure envelope with the
\* no-documents error, and the index is empty afterwards.
C5_RefreshEmptyCorpus ==
  (last.op = "refresh" /\ Scanned = <<>>)
    => /\ ~last.payload.success
       /\ last.payload.error = NoDocsError
       /\ collection = EmptyCollection
       /\ TotalChunks(get_collection_stats(collection, "none")) = 0

\* The passages a document set gives, each with its identifier.
PassagesOf(documents) ==
  {<<Flatten(documents)[k].id, PassageOf(Flatten(documents)[k])>> :
     k \in 1..Len(Flatten(documents))}

Stored(coll) == {<<id, coll[id]>> : id \in DOMAIN coll}

\* C6: whenever refresh reports success the service is Ready and the index
\* holds exactly the passages of the documents that refresh scanned.
C6_RefreshRebuilds ==
  (last.op = "refresh" /\ last.payload.success)
    => /\ is_initialized
       /\ Stored(collection) = PassagesOf(Scanned)

\* C7: a search or guidance request that passes a category returns no
\* result whose category differs from it.
C7_CategoryFilter ==
  (last.op \in {"search", "guidance"} /\ last.category # None /\ last.payload.success)
    => \A r \in last.payload.results : r.sop_category = last.category

\* C8: when the embedding model or the nearest-neighbour query fails during
\* a search or guidance request, the envelope returned is a failure: success
\* false, an error message, the request echoed.
C8_FailuresSurfaced ==
  (last.op \in {"search", "guidance"} /\ last.fault \in {"embed", "query"})
    => /\ ~last.payload.success
       /\ last.payload.error # ""
       /\ last.payload.echo = Query

C10_ChunkSizeBound ==
  (c_pc \in {"loop", "done"} /\ c_size > c_overlap /\ c_overlap >= 0)
    => /\ \A k \in 1..Len(c_chunks) : Len(c_chunks[k]) <= c_size
       /\ (c_pc = "done" /\ Len(c_text) <= c_size) => c_chunks = <<c_text>>

\* chunk_text has returned several chunks of a longer text, one of them of
\* the full chunk size and one cut at a sentence end.
C10_Witness ==
  /\ c_pc = "done"
  /\ c_size > c_overlap
  /\ Len(c_text) > c_size
  /\ Len(c_chunks) >= 2
  /\ \E k \in 1..Len(c_chunks) : Len(c_chunks[k]) = c_size
  /\ \E k \in 1..Len(c_chunks) :
       Len(c_chunks[k]) < c_size /\ c_chunks[k][Len(c_chunks[k])] = "."

\* Whether Python index p lies in the window w = <<start, end>>.
InWindow(p, w) == w[1] <= p /\ p < w[2]

\* C11: for a text longer than chunk_size and 0 <= overlap < chunk_size, the
\* windows chunk_text slices begin at the start of the text, each begins after
\* the one before it and exactly overlap characters before that one's end, and
\* when chunk_text has returned they cover every position of the text and
\* every character that is not whitespace lies in a window whose trimmed slice
\* is one of the returned chunks.
C11_ChunkCoverage ==
  (c_pc \in {"loop", "done"} /\ Len(c_text) > c_size
     /\ 0 <= c_overlap /\ c_overlap < c_size)
    => /\ c_windows # <<>> => c_windows[1][1] = 0
       /\ \A i \in 1..(Len(c_windows) - 1) :
            /\ c_windows[i + 1][1] > c_windows[i][1]
            /\ c_windows[i + 1][1] = c_windows[i][2] - c_overlap
       /\ c_pc = "done" =>
            \A p \in 0..(Len(c_text) - 1) :
              /\ \E i \in 1..Len(c_windows) : InWindow(p, c_windows[i])
              /\ c_text[p + 1] \notin Whitespace =>
                   \E i \in 1..Len(c_windows), k \in 1..Len(c_chunks) :
                     /\ InWindow(p, c_windows[i])
                     /\ c_chunks[k] = Strip(Slice(c_text, c_windows[i][1],
                                                  c_windows[i][2]))

\* C12: chunk_text never loops forever.  On every iteration with
\* overlap < chunk_size the start moves forward, an iteration that would not
\* move it forward ends in a configuration error instead, and so no call
\* has work left after as many iterations as the text has characters.
C12_ChunkingTerminates ==
  [][(c_pc = "loop" /\ c_size > 0 /\ c_overlap >= 0)
       => /\ (c_pc' = "loop" /\ c_overlap < c_size) => c_start' > c_start
          /\ (c_pc' = "loop" /\ c_iter' > c_iter /\ c_start' <= c_start)
               => c_pc' = "error"
          /\ (c_pc' = "loop" /\ c_start' < Len(c_text)) => c_iter' < MaxIters]_vars

\* The windows cover every position of the text, and every window's trimmed
\* slice that is not empty is a returned chunk, in order.
ChunksCoverText ==
  /\ \A p \in 0..(Len(c_text) - 1) :
       \E i \in 1..Len(c_windows) : InWindow(p, c_windows[i])
  /\ Len(c_chunks) = Len(c_windows)
  /\ \A i \in 1..Len(c_windows) :
       c_chunks[i] = Strip(Slice(c_text, c_windows[i][1], c_windows[i][2]))

\* No chunk end was moved to a sentence end.
NoPullBack ==
  \A i \in 1..Len(c_windows) : c_windows[i][2] = c_windows[i][1] + c_size

C14_InitForcedByQueries ==
  [][/\ last'.op \in QueryOps
          => /\ ~is_initialized => last'.did.ran
             /\ last'.payload.success => is_initialized'
             /\ ~is_initialized'
                  => /\ last'.did.raised
                     /\ ~last'.payload.success
                     /\ last'.payload.results = {}
     /\ last'.op \in {"status", "list"}
          => /\ ~last'.did.ran
             /\ ~last'.did.scanned
             /\ ~last'.did.add_called
             /\ is_initialized' = is_initialized
             /\ collection' = collection]_vars

\* A status or list request has been answered while the flag is unset, the
\* index is empty and the root holds documents a bootstrap would have added.
C14_Witness ==
  /\ last.op \in {"status", "list"}
  /\ ~is_initialized
  /\ collection = EmptyCollection
  /\ ScannedEntries # <<>>

\* C19: the bootstrap calls add_documents only when the index holds no
\* passage, also when get_collection_stats fails and returns the empty
\* record.
C19_BootstrapAddsOnlyToEmpty ==
  [][(last'.op \in BootOps /\ last'.did.ran /\ last'.did.add_called)
       => /\ collection = EmptyCollection
          /\ Cardinality(DOMAIN collection) = 0]_vars

\* The categories the records of a document set carry.
DocCategories(documents) ==
  {documents[k].sop_category : k \in 1..Len(documents)}

\* Every supported file of the tree yields a document record.
AllReadable(files) ==
  \A f \in files :
    FileInfo[f].ext \in supported_extensions => Processed[f] # <<>>

\* The immediate subdirectories of the root that hold, at any depth, a
\* supported file.
SupportedSubdirs(files) ==
  {FileInfo[f].dir[1] :
     f \in {g \in files : FileInfo[g].dir # <<>>
                           /\ FileInfo[g].ext \in supported_extensions}}

\* C15: when every supported file under the root is readable, the categories
\* carried by the scanned documents, and by the passages stored from them, are
\* the categories list_sop_categories returns, and these are the immediate
\* subdirectories of the root that contain a supported file.
C15_CategorySet ==
  (last.op = "list" /\ root_exists /\ AllReadable(corpus))
    => /\ DocCategories(Scanned) = last.payload.results[1]
       /\ last.payload.results[1] = SupportedSubdirs(corpus)
       /\ \A id \in DOMAIN collection :
            collection[id].metadata.sop_category \in last.payload.results[1]

RECURSIVE CleanAll(_)
CleanAll(files) ==
  IF files = {} THEN <<>>
  ELSE LET f == CHOOSE x \in files : TRUE
       IN (f :> clean_text(extract_text(f))) @@ CleanAll(files \ {f})

\* Each file's text after extraction and cleaning, computed once.
Cleaned == CleanAll(FileNames)

\* C16: a file whose text is empty after extraction or after cleaning gives
\* no document record, every chunk of every scanned document is non-empty, and
\* every passage the bootstrap or a refresh has stored has non-empty text.
C16_NoEmptyText ==
  (last.op \in {"startup", "refresh"} /\ last.did.scanned /\ root_exists)
    => /\ \A f \in corpus :
            (FileInfo[f].ext \in supported_extensions
               /\ (extract_text(f) = <<>> \/ Cleaned[f] = <<>>))
              => Processed[f] = <<>>
       /\ \A k \in 1..Len(Scanned) :
            \A i \in 1..Len(Scanned[k].chunks) : Scanned[k].chunks[i] # <<>>
       /\ \A id \in DOMAIN collection : collection[id].document # <<>>

\* C18: in the batch one scan produces, two different (file, chunk index)
\* pairs never get the same passage identifier.
C18_UniqueIds ==
  (last.op \in {"startup", "refresh"} /\ last.did.scanned)
    => \A i, j \in 1..Len(ScannedEntries) :
         (ScannedEntries[i].metadata.file_path # ScannedEntries[j].metadata.file_path
            \/ ScannedEntries[i].metadata.chunk_index
                 # ScannedEntries[j].metadata.chunk_index)
           => ScannedEntries[i].id # ScannedEntries[j].id

\* Task t has executed a statement of its handler and has not returned.
Mid(t) == tasks[t].pc \notin {"free", "ready", "done"}

====
